---------------------------- MODULE Spec2Model ----------------------------
(***************************************************************************)
(* A model of flask_api/responses.py: the JSON result envelope (ApiResult, *)
(* ApiException), the temporary file server (ApiFileResult with its        *)
(* deferred cleanup thread) and the background job runner (ApiAsyncJob).   *)
(*                                                                         *)
(* Text (response bodies, file names, file contents) is a sequence of      *)
(* one-character strings, so that json.dumps, json.dump, repr and rsplit   *)
(* are computed character by character, and a partially written file is a *)
(* proper prefix of a document.                                            *)
(***************************************************************************)
EXTENDS Integers, Sequences, FiniteSets, TLC

VARIABLES
    result,     \* the ApiResult / ApiException object built last (value, status)
    response,   \* the flask Response that to_response returned last
    dirs,       \* the directories that exist (normalised paths)
    files,      \* the regular files that exist: normalised path -> content
    req,        \* per request: the handler's position and locals
    cleaner,    \* per request: the cleanup thread started by after_this_request
    job         \* per request: the ApiAsyncJob and its thread

vars == <<result, response, dirs, files, req, cleaner, job>>

---------------------------------------------------------------------------
(* Bounds of the model                                                     *)

\* Number of concurrent requests (each publishes a file or runs a job).
NReq == 2

---------------------------------------------------------------------------
(* Program constants                                                       *)

MAX_CLEANUP_TRIES == 5

KEEP_FILE_FOR_SECONDS == 60

\* The literal of time.sleep(2) in cleanup_tempfile.
RETRY_SLEEP_SECONDS == 2

---------------------------------------------------------------------------
(* Text                                                                    *)

Digits == <<"0", "1", "2", "3", "4", "5", "6", "7", "8", "9">>

HexDigits == Digits \o <<"a", "b", "c", "d", "e", "f">>

RECURSIVE NatRepr(_)
NatRepr(n) ==
    IF n < 10 THEN <<Digits[n + 1]>>
    ELSE NatRepr(n \div 10) \o <<Digits[(n % 10) + 1]>>

\* int.__repr__, which json also uses for integers.
IntRepr(n) == IF n < 0 THEN <<"-">> \o NatRepr(0 - n) ELSE NatRepr(n)

\* The position of the last occurrence of character c in text s, 0 if none.
LastIndexOf(s, c) ==
    LET hits == {i \in 1..Len(s) : s[i] = c}
    IN  IF hits = {} THEN 0 ELSE CHOOSE i \in hits : \A j \in hits : j <= i

\* str.rsplit(c, 1): at most two parts, split at the last occurrence of c.
RSplit1(s, c) ==
    LET k == LastIndexOf(s, c)
    IN  IF k = 0 THEN <<s>>
        ELSE <<SubSeq(s, 1, k - 1), SubSeq(s, k + 1, Len(s))>>

RECURSIVE Join(_, _)
\* sep.join(parts)
Join(sep, parts) ==
    IF parts = <<>> THEN <<>>
    ELSE IF Len(parts) = 1 THEN parts[1]
    ELSE parts[1] \o sep \o Join(sep, Tail(parts))

---------------------------------------------------------------------------
(* Python values                                                           *)

PyNone == [t |-> "none"]
PyBool(b) == [t |-> "bool", b |-> b]
PyInt(n) == [t |-> "int", i |-> n]
PyStr(s) == [t |-> "str", s |-> s]
PyList(items) == [t |-> "list", items |-> items]
\* A dict keeps insertion order: a sequence of <<key, value>> pairs.
PyDict(pairs) == [t |-> "dict", pairs |-> pairs]
\* A set of integers, given by its elements in iteration order.
PySet(items) == [t |-> "set", items |-> items]
\* An instance of a class json knows nothing about.
PyObject(id) == [t |-> "object", id |-> id]

\* bool(v): Python's truth value.
Truthy(v) ==
    CASE v.t = "none" -> FALSE
      [] v.t = "bool" -> v.b
      [] v.t = "int" -> v.i # 0
      [] v.t = "str" -> v.s # <<>>
      [] v.t = "list" -> v.items # <<>>
      [] v.t = "dict" -> v.pairs # <<>>
      [] v.t = "set" -> v.items # <<>>
      [] OTHER -> TRUE

\* dict.get(key): the value stored under key, None when the key is absent.
DictGet(d, key) ==
    LET hits == {k \in 1..Len(d.pairs) : d.pairs[k][1] = key}
    IN  IF hits = {} THEN PyNone ELSE d.pairs[CHOOSE k \in hits : TRUE][2]

DictHas(d, key) == \E k \in 1..Len(d.pairs) : d.pairs[k][1] = key

---------------------------------------------------------------------------
(* json.dumps / json.dump                                                  *)

EscapeChar(c) ==
    CASE c = "\"" -> <<"\\", "\"">>
      [] c = "\\" -> <<"\\", "\\">>
      [] c = "\n" -> <<"\\", "n">>
      [] OTHER -> <<c>>

RECURSIVE EscapeText(_)
EscapeText(s) ==
    IF s = <<>> THEN <<>> ELSE EscapeChar(Head(s)) \o EscapeText(Tail(s))

\* json's encoding of a str: quoted, with the quote, backslash and newline escaped.
JsonStr(s) == <<"\"">> \o EscapeText(s) \o <<"\"">>

JsonOk(text) == [ok |-> TRUE, out |-> text]
\* A TypeError raised after `text` has been produced.
JsonRaise(text) == [ok |-> FALSE, out |-> text]

RECURSIVE JsonEncode(_), JsonItems(_, _), JsonPairs(_, _)
\* The encoder's output for v: the text it yields, and whether it ran to the
\* end (ok) or raised TypeError after yielding that text.
JsonEncode(v) ==
    CASE v.t = "none" -> JsonOk(<<"n", "u", "l", "l">>)
      [] v.t = "bool" -> JsonOk(IF v.b THEN <<"t", "r", "u", "e">>
                                       ELSE <<"f", "a", "l", "s", "e">>)
      [] v.t = "int" -> JsonOk(IntRepr(v.i))
      [] v.t = "str" -> JsonOk(JsonStr(v.s))
      [] v.t = "list" ->
            IF v.items = <<>> THEN JsonOk(<<"[", "]">>)
            ELSE LET r == JsonItems(v.items, 1)
                 IN  IF r.ok THEN JsonOk(<<"[">> \o r.out \o <<"]">>)
                     ELSE JsonRaise(<<"[">> \o r.out)
      [] v.t = "dict" ->
            IF v.pairs = <<>> THEN JsonOk(<<"{", "}">>)
            ELSE LET r == JsonPairs(v.pairs, 1)
                 IN  IF r.ok THEN JsonOk(<<"{">> \o r.out \o <<"}">>)
                     ELSE JsonRaise(<<"{">> \o r.out)
      [] OTHER -> JsonRaise(<<>>)

JsonItems(items, k) ==
    IF k > Len(items) THEN JsonOk(<<>>)
    ELSE LET sep == IF k = 1 THEN <<>> ELSE <<",", " ">>
             e == JsonEncode(items[k])
         IN  IF ~e.ok THEN JsonRaise(sep \o e.out)
             ELSE LET rest == JsonItems(items, k + 1)
                  IN  [ok |-> rest.ok, out |-> sep \o e.out \o rest.out]

JsonPairs(pairs, k) ==
    IF k > Len(pairs) THEN JsonOk(<<>>)
    ELSE LET sep == IF k = 1 THEN <<>> ELSE <<",", " ">>
             key == pairs[k][1]
             e == JsonEncode(pairs[k][2])
         IN  CASE key.t = "str" ->
                    LET head == sep \o JsonStr(key.s) \o <<":", " ">>
                    IN  IF ~e.ok THEN JsonRaise(head \o e.out)
                        ELSE LET rest == JsonPairs(pairs, k + 1)
                             IN  [ok |-> rest.ok, out |-> head \o e.out \o rest.out]
               [] key.t = "int" ->
                    LET head == sep \o <<"\"">> \o IntRepr(key.i) \o <<"\"">>
                                    \o <<":", " ">>
                    IN  IF ~e.ok THEN JsonRaise(head \o e.out)
                        ELSE LET rest == JsonPairs(pairs, k + 1)
                             IN  [ok |-> rest.ok, out |-> head \o e.out \o rest.out]
               [] OTHER -> JsonRaise(<<>>)   \* keys must be str, int, ...

---------------------------------------------------------------------------
(* repr                                                                    *)

ReprChar(c) ==
    CASE c = "'" -> <<"\\", "'">>
      [] c = "\\" -> <<"\\", "\\">>
      [] c = "\n" -> <<"\\", "n">>
      [] OTHER -> <<c>>

RECURSIVE ReprText(_)
ReprText(s) == IF s = <<>> THEN <<>> ELSE ReprChar(Head(s)) \o ReprText(Tail(s))

RECURSIVE Repr(_), ReprItems(_, _), ReprPairs(_, _)
\* repr(v)
Repr(v) ==
    CASE v.t = "none" -> <<"N", "o", "n", "e">>
      [] v.t = "bool" -> IF v.b THEN <<"T", "r", "u", "e">>
                                ELSE <<"F", "a", "l", "s", "e">>
      [] v.t = "int" -> IntRepr(v.i)
      \* (texts holding an apostrophe and no double quote, which repr puts in
      \* double quotes, are not among the values of the model)
      [] v.t = "str" -> <<"'">> \o ReprText(v.s) \o <<"'">>
      [] v.t = "list" -> <<"[">> \o ReprItems(v.items, 1) \o <<"]">>
      [] v.t = "dict" -> <<"{">> \o ReprPairs(v.pairs, 1) \o <<"}">>
      [] v.t = "set" -> IF v.items = <<>> THEN <<"s", "e", "t", "(", ")">>
                        ELSE <<"{">> \o ReprItems(v.items, 1) \o <<"}">>
      \* object.__repr__: <object object at 0x...>, the address left out
      [] OTHER -> <<"<", "o", "b", "j", "e", "c", "t", " ">>
                    \o NatRepr(v.id) \o <<">">>

ReprItems(items, k) ==
    IF k > Len(items) THEN <<>>
    ELSE (IF k = 1 THEN <<>> ELSE <<",", " ">>)
            \o Repr(items[k]) \o ReprItems(items, k + 1)

ReprPairs(pairs, k) ==
    IF k > Len(pairs) THEN <<>>
    ELSE (IF k = 1 THEN <<>> ELSE <<",", " ">>)
            \o Repr(pairs[k][1]) \o <<":", " ">> \o Repr(pairs[k][2])
            \o ReprPairs(pairs, k + 1)

---------------------------------------------------------------------------
(* json.loads, used to read a body or a result file back                   *)

\* What a reader gets from text that is no JSON document (JSONDecodeError).
JsonInvalid == [t |-> "invalid"]

ParseOk(v, pos) == [ok |-> TRUE, val |-> v, pos |-> pos]
ParseFail == [ok |-> FALSE, val |-> JsonInvalid, pos |-> 0]

RECURSIVE SkipWs(_, _)
SkipWs(text, i) ==
    IF i <= Len(text) /\ text[i] \in {" ", "\n"} THEN SkipWs(text, i + 1) ELSE i

StartsWith(text, i, word) ==
    /\ i + Len(word) - 1 <= Len(text)
    /\ SubSeq(text, i, i + Len(word) - 1) = word

DigitValue(c) == (CHOOSE k \in 1..10 : Digits[k] = c) - 1

IsDigit(text, i) == i <= Len(text) /\ \E k \in 1..10 : Digits[k] = text[i]

RECURSIVE ParseDigits(_, _, _)
\* The digits from position i on, acc being the number read so far.
ParseDigits(text, i, acc) ==
    IF IsDigit(text, i)
    THEN ParseDigits(text, i + 1, 10 * acc + DigitValue(text[i]))
    ELSE [val |-> acc, pos |-> i]

RECURSIVE ParseString(_, _, _)
\* A string's characters from position i (after the opening quote) on.
ParseString(text, i, acc) ==
    IF i > Len(text) THEN ParseFail
    ELSE CASE text[i] = "\"" -> ParseOk(PyStr(acc), i + 1)
           [] text[i] = "\n" -> ParseFail      \* a raw control character
           [] text[i] = "\\" ->
                IF i + 1 > Len(text) THEN ParseFail
                ELSE CASE text[i + 1] = "n" -> ParseString(text, i + 2, acc \o <<"\n">>)
                       [] text[i + 1] = "\"" -> ParseString(text, i + 2, acc \o <<"\"">>)
                       [] text[i + 1] = "\\" -> ParseString(text, i + 2, acc \o <<"\\">>)
                       [] OTHER -> ParseFail
           [] OTHER -> ParseString(text, i + 1, acc \o <<text[i]>>)

RECURSIVE ParseValue(_, _), ParseArray(_, _, _), ParseObject(_, _, _)
ParseValue(text, i0) ==
    LET i == SkipWs(text, i0)
    IN  IF i > Len(text) THEN ParseFail
        ELSE CASE StartsWith(text, i, <<"n", "u", "l", "l">>) -> ParseOk(PyNone, i + 4)
               [] StartsWith(text, i, <<"t", "r", "u", "e">>) ->
                    ParseOk(PyBool(TRUE), i + 4)
               [] StartsWith(text, i, <<"f", "a", "l", "s", "e">>) ->
                    ParseOk(PyBool(FALSE), i + 5)
               [] text[i] = "\"" -> ParseString(text, i + 1, <<>>)
               [] IsDigit(text, i) ->
                    LET d == ParseDigits(text, i, 0) IN ParseOk(PyInt(d.val), d.pos)
               [] text[i] = "-" /\ IsDigit(text, i + 1) ->
                    LET d == ParseDigits(text, i + 1, 0)
                    IN  ParseOk(PyInt(0 - d.val), d.pos)
               [] text[i] = "[" ->
                    LET j == SkipWs(text, i + 1)
                    IN  IF j <= Len(text) /\ text[j] = "]"
                        THEN ParseOk(PyList(<<>>), j + 1)
                        ELSE ParseArray(text, j, <<>>)
               [] text[i] = "{" ->
                    LET j == SkipWs(text, i + 1)
                    IN  IF j <= Len(text) /\ text[j] = "}"
                        THEN ParseOk(PyDict(<<>>), j + 1)
                        ELSE ParseObject(text, j, <<>>)
               [] OTHER -> ParseFail

\* The elements of an array from position i on, acc being those read so far.
ParseArray(text, i, acc) ==
    LET e == ParseValue(text, i)
    IN  IF ~e.ok THEN ParseFail
        ELSE LET j == SkipWs(text, e.pos)
             IN  IF j > Len(text) THEN ParseFail
                 ELSE CASE text[j] = "]" -> ParseOk(PyList(Append(acc, e.val)), j + 1)
                        [] text[j] = "," -> ParseArray(text, j + 1, Append(acc, e.val))
                        [] OTHER -> ParseFail

\* The members of an object from position i on, acc being those read so far.
ParseObject(text, i0, acc) ==
    LET i == SkipWs(text, i0)
    IN  IF i > Len(text) \/ text[i] # "\"" THEN ParseFail
        ELSE LET k == ParseString(text, i + 1, <<>>)
                 c == SkipWs(text, k.pos)
             IN  IF ~k.ok \/ c > Len(text) \/ text[c] # ":" THEN ParseFail
                 ELSE LET e == ParseValue(text, c + 1)
                          j == SkipWs(text, e.pos)
                          now == Append(acc, <<k.val, e.val>>)
                      IN  IF ~e.ok \/ j > Len(text) THEN ParseFail
                          ELSE CASE text[j] = "}" -> ParseOk(PyDict(now), j + 1)
                                 [] text[j] = "," -> ParseObject(text, j + 1, now)
                                 [] OTHER -> ParseFail

\* json.loads(text): the value of a document, JsonInvalid for any other text.
JsonLoads(text) ==
    LET r == ParseValue(text, 1)
    IN  IF r.ok /\ SkipWs(text, r.pos) > Len(text) THEN r.val ELSE JsonInvalid

---------------------------------------------------------------------------
(* The filesystem: paths are sequences of components, each a text          *)

CurDir == <<".">>

\* current_app.root_path
RootPath == << <<"a", "p", "p">> >>

StaticName == <<"s", "t", "a", "t", "i", "c">>

\* current_app.static_folder (flask's default: <root_path>/static)
StaticFolder == RootPath \o <<StaticName>>

\* os.path.join(root, 'static', 'downloads')
DownloadsDir ==
    RootPath \o <<StaticName, <<"d", "o", "w", "n", "l", "o", "a", "d", "s">> >>

\* The directory the published source files live in.
SourceDir == << <<"t", "m", "p">> >>

\* What the kernel resolves a path to: "." components name no directory.
NormPath(path) == SelectSeq(path, LAMBDA c : c # CurDir)

\* os.path.dirname
DirName(path) == SubSeq(path, 1, Len(path) - 1)

\* os.path.basename
BaseName(path) == path[Len(path)]

\* os.path.isfile, os.path.isdir
IsFile(path) == NormPath(path) \in DOMAIN files
IsDir(path) == NormPath(path) \in dirs

\* os.makedirs(path): the directory and every missing parent.
MakeDirs(path) ==
    dirs \cup {SubSeq(NormPath(path), 1, k) : k \in 1..Len(NormPath(path))}

\* The filesystem after a file is written (created or replaced) at path.
WriteFile(path, content) ==
    [p \in DOMAIN files \cup {NormPath(path)} |->
        IF p = NormPath(path) THEN content ELSE files[p]]

\* The filesystem after os.remove(path) succeeded.
RemoveFile(path) == [p \in DOMAIN files \ {NormPath(path)} |-> files[p]]

---------------------------------------------------------------------------
(* Requests                                                                *)

Requests == 1..NReq

\* uuid4(): the token drawn by request r. Every request draws one token, and
\* tokens are taken to be fresh: different draws give different tokens.
uuid4(r) == r

\* UUID.hex, shortened to two hexadecimal digits.
UuidHex(u) == <<HexDigits[((u \div 16) % 16) + 1], HexDigits[(u % 16) + 1]>>

\* str(UUID): the hexadecimal digits in dash-separated groups.
UuidStr(u) == <<HexDigits[((u \div 16) % 16) + 1], "-", HexDigits[(u % 16) + 1]>>

ReportPdf == <<"r", ".", "p", "d", "f">>
Notes == <<"n">>

\* The filepath arguments a request passes: a regular file, a directory, a
\* path that does not exist.
FilePaths == {SourceDir \o <<ReportPdf>>, SourceDir, SourceDir \o << <<"x">> >>}

\* The attachment_name arguments: None, the empty name, names with and
\* without an extension.
AttachmentNames == {PyNone, PyStr(<<>>), PyStr(ReportPdf), PyStr(Notes)}

NoPath == <<>>

IdleRequest ==
    [pc |-> "idle", filepath |-> NoPath, attachment_name |-> PyNone,
     tmp_file |-> NoPath, value |-> PyNone, error |-> "none"]

\* The cleanup thread of a request: tries is cleanup_tempfile's argument.
\* slept is the time the thread has spent in time.sleep since it was started
\* (no less time than that has passed since the hook started it); removes and
\* failures count its os.remove calls and those of them that raised.
NoCleaner == [pc |-> "none", tries |-> 0, slept |-> 0, removes |-> 0, failures |-> 0]

\* A unique name that leaves the token out.
UniqueAttachment_without_token(attachment_name, token) == attachment_name

\* lines 65-67: the attachment name with _<token> put before its extension.
UniqueAttachment(attachment_name, token) ==
    LET parts == RSplit1(attachment_name, ".")
    IN  Join(<<".">>, <<parts[1] \o <<"_">> \o token>> \o Tail(parts))

\* url_for('static', filename=...): flask's default static route.
url_for_static(filename) == <<"/">> \o StaticName \o <<"/">> \o filename

\* The constructor with the downloads directory made before the regular-file
\* check.
ApiFileResult_init_makedirs_first(r, filepath, attachment_name) ==
    /\ req[r].pc = "idle"
    /\ job[r].pc = "none"
    /\ dirs' = MakeDirs(DownloadsDir)
    /\ IF ~IsFile(filepath)
       THEN req' = [req EXCEPT ![r].pc = "raised", ![r].error = "TypeError"]
       ELSE req' = [req EXCEPT ![r].pc = "copy",
                               ![r].filepath = filepath,
                               ![r].attachment_name = attachment_name]
    /\ UNCHANGED <<result, response, files, cleaner, job>>

\* lines 54-60: the regular-file check, then the look at the downloads
\* directory.
ApiFileResult_init(r, filepath, attachment_name) ==
    /\ req[r].pc = "idle"
    /\ job[r].pc = "none"
    /\ IF ~IsFile(filepath)
       THEN req' = [req EXCEPT ![r].pc = "raised", ![r].error = "TypeError"]
       ELSE req' = [req EXCEPT ![r].pc = IF IsDir(DownloadsDir)
                                         THEN "copy" ELSE "makedirs",
                               ![r].filepath = filepath,
                               ![r].attachment_name = attachment_name]
    /\ UNCHANGED <<result, response, dirs, files, cleaner, job>>

\* line 61: os.makedirs(downloads), which raises FileExistsError when another
\* request has created the directory since line 60 looked.
ApiFileResult_makedirs(r) ==
    /\ req[r].pc = "makedirs"
    /\ IF IsDir(DownloadsDir)
       THEN /\ req' = [req EXCEPT ![r].pc = "raised", ![r].error = "FileExistsError"]
            /\ dirs' = dirs
       ELSE /\ req' = [req EXCEPT ![r].pc = "copy"]
            /\ dirs' = MakeDirs(DownloadsDir)
    /\ UNCHANGED <<result, response, files, cleaner, job>>

\* lines 63-100: attachment_name rebound to the display name, the unique
\* name, the copy, the descriptor, and the registration of cleanup with
\* after_this_request; the constructor returns.
ApiFileResult_copy(r) ==
    /\ req[r].pc = "copy"
    /\ LET name == IF Truthy(req[r].attachment_name)
                   THEN req[r].attachment_name.s
                   ELSE BaseName(req[r].filepath)
           unique_attachment == UniqueAttachment(name, UuidHex(uuid4(r)))
           tmp_file == DownloadsDir \o <<unique_attachment>>
       IN  /\ files' = WriteFile(tmp_file, files[NormPath(req[r].filepath)])
           /\ req' = [req EXCEPT
                ![r].pc = "returned",
                ![r].attachment_name = PyStr(name),
                ![r].tmp_file = tmp_file,
                ![r].value = PyDict(<<
                    <<PyStr(<<"s", "u", "c", "c", "e", "s", "s">>), PyBool(TRUE)>>,
                    <<PyStr(<<"u", "r", "l">>),
                      PyStr(url_for_static(
                        <<"d", "o", "w", "n", "l", "o", "a", "d", "s", "/">>
                            \o unique_attachment))>>,
                    <<PyStr(<<"a", "t", "t", "a", "c", "h", "m", "e", "n", "t",
                              "_", "n", "a", "m", "e">>), PyStr(name)>>,
                    <<PyStr(<<"a", "v", "a", "i", "l", "a", "b", "l", "e", "_",
                              "f", "o", "r", "_", "s", "e", "c", "o", "n", "d", "s">>),
                      PyInt(KEEP_FILE_FOR_SECONDS)>> >>)]
    /\ UNCHANGED <<result, response, dirs, cleaner, job>>

\* lines 84-85, 99-100: the request is over and flask calls cleanup(response),
\* which starts the cleanup_tempfile thread.
cleanup(r) ==
    /\ req[r].pc = "returned"
    /\ req' = [req EXCEPT ![r].pc = "responded"]
    /\ cleaner' = [cleaner EXCEPT ![r] = [NoCleaner EXCEPT !.pc = "check"]]
    /\ UNCHANGED <<result, response, dirs, files, job>>

\* The thread without its time.sleep(KEEP_FILE_FOR_SECONDS).
cleanup_tempfile_wait_without_sleep(r) ==
    /\ cleaner[r].pc = "check"
    /\ cleaner' = [cleaner EXCEPT
            ![r].pc = IF ~IsFile(req[r].tmp_file) THEN "exit" ELSE "remove"]
    /\ UNCHANGED <<result, response, dirs, files, req, job>>

\* The isfile test inverted: the thread returns when the file is there.
cleanup_tempfile_wait_inverted(r) ==
    /\ cleaner[r].pc = "check"
    /\ IF IsFile(req[r].tmp_file)
       THEN cleaner' = [cleaner EXCEPT ![r].pc = "exit"]
       ELSE cleaner' = [cleaner EXCEPT
                ![r].pc = "remove",
                ![r].slept = @ + KEEP_FILE_FOR_SECONDS]
    /\ UNCHANGED <<result, response, dirs, files, req, job>>

\* lines 87-90: return when the file is gone, else sleep the retention window.
cleanup_tempfile_wait(r) ==
    /\ cleaner[r].pc = "check"
    /\ IF ~IsFile(req[r].tmp_file)
       THEN cleaner' = [cleaner EXCEPT ![r].pc = "exit"]
       ELSE cleaner' = [cleaner EXCEPT
                ![r].pc = "remove",
                ![r].slept = @ + KEEP_FILE_FOR_SECONDS]
    /\ UNCHANGED <<result, response, dirs, files, req, job>>

\* What os.remove(path) can do: FileNotFoundError for a missing file; for a
\* file that is there, success or (failing) PermissionError.
RemoveOutcomes(path, failing) ==
    IF ~IsFile(path) THEN {"FileNotFoundError"}
    ELSE IF failing THEN {"PermissionError"} ELSE {"removed"}

\* lines 92-94: os.remove(tmp_file) and the except clause.
cleanup_tempfile_remove(r, failing) ==
    /\ cleaner[r].pc = "remove"
    /\ \E outcome \in RemoveOutcomes(req[r].tmp_file, failing) :
        IF outcome = "removed"
        THEN /\ files' = RemoveFile(req[r].tmp_file)
             /\ cleaner' = [cleaner EXCEPT ![r].pc = "exit", ![r].removes = @ + 1]
        ELSE /\ files' = files
             /\ cleaner' = [cleaner EXCEPT ![r].pc = "except",
                                           ![r].removes = @ + 1,
                                           ![r].failures = @ + 1]
    /\ UNCHANGED <<result, response, dirs, req, job>>

\* lines 95-97: sleep two seconds, then call cleanup_tempfile again unless
\* tries has reached MAX_CLEANUP_TRIES.
cleanup_tempfile_retry(r) ==
    /\ cleaner[r].pc = "except"
    /\ cleaner' = [cleaner EXCEPT
            ![r].slept = @ + RETRY_SLEEP_SECONDS,
            ![r].pc = IF cleaner[r].tries < MAX_CLEANUP_TRIES THEN "check" ELSE "exit",
            ![r].tries = IF cleaner[r].tries < MAX_CLEANUP_TRIES THEN @ + 1 ELSE @]
    /\ UNCHANGED <<result, response, dirs, files, req, job>>

---------------------------------------------------------------------------
(* ApiAsyncJob                                                             *)

\* The integers a unit of work returns.
Ints == {0, 1}

KeyStatus == PyStr(<<"s", "t", "a", "t", "u", "s">>)
KeyData == PyStr(<<"d", "a", "t", "a">>)
KeyError == PyStr(<<"e", "r", "r", "o", "r">>)
Complete == PyStr(<<"c", "o", "m", "p", "l", "e", "t", "e">>)

\* Values json can encode.
SerializableValues ==
    {PyNone, PyBool(FALSE), PyStr(<<>>), PyList(<<>>), PyDict(<<>>),
     PyStr(<<"a", "\"", "\n">>), PyList(<<PyInt(0)>>),
     PyDict(<< <<PyStr(<<"k">>), PyNone>> >>)}
        \cup {PyInt(n) : n \in Ints}

\* Values json cannot encode: a set, and a list that holds an object.
UnserializableValues == {PySet(<<PyInt(1)>>), PyList(<<PyInt(1), PyObject(1)>>)}

Values == SerializableValues \cup UnserializableValues

NoOutcome == [kind |-> "none", value |-> PyNone]

\* What the unit of work does when called: return a value, or raise an
\* Exception.
Outcomes ==
    {[kind |-> "return", value |-> v] : v \in Values}
        \cup {[kind |-> "raise", value |-> PyNone]}

\* traceback.format_exc(): the header, the frames, the exception's line.
format_exc ==
    <<"T", "r", "a", "c", "e", "b", "a", "c", "k", ":", "\n", " ", "F", "i", "l", "e",
      " ", "\"", "w", "\"", "\n", "E", "r", "r", "o", "r", "\n">>

NoJob ==
    [pc |-> "none", job_id |-> <<>>, returned |-> <<>>, outcome |-> NoOutcome,
     data |-> PyNone, error |-> "none"]

\* lines 140-141
job_path(job_id) ==
    StaticFolder \o <<CurDir, <<"t", "e", "m", "p">>,
                      job_id \o <<".", "j", "s", "o", "n">> >>

\* lines 104-129: the constructor draws the job identifier and builds the
\* thread, which is not started.
ApiAsyncJob_init(r) ==
    /\ req[r].pc = "idle"
    /\ job[r].pc = "none"
    /\ job' = [job EXCEPT ![r].pc = "new", ![r].job_id = UuidStr(uuid4(r))]
    /\ UNCHANGED <<result, response, dirs, files, req, cleaner>>

\* lines 135-137: run() starts the thread and returns the identifier.
run(r) ==
    /\ job[r].pc = "new"
    /\ job' = [job EXCEPT ![r].pc = "running", ![r].returned = job[r].job_id]
    /\ UNCHANGED <<result, response, dirs, files, req, cleaner>>

\* lines 110-119: the dict built from what the unit of work did.
async_target_data(outcome) ==
    IF outcome.kind = "return"
    THEN PyDict(<< <<KeyStatus, Complete>>, <<KeyData, outcome.value>> >>)
    ELSE PyDict(<< <<KeyStatus, Complete>>, <<KeyError, PyStr(format_exc)>> >>)

\* line 121
async_target_persists(data) ==
    Truthy(DictGet(data, KeyData)) \/ Truthy(DictGet(data, KeyError))

\* lines 110-123: the thread calls the unit of work, builds data, and either
\* ends (nothing truthy to persist) or looks at the result directory.
async_target_call(r, outcome) ==
    /\ job[r].pc = "running"
    /\ LET data == async_target_data(outcome)
       IN  job' = [job EXCEPT
                ![r].outcome = outcome,
                ![r].data = data,
                ![r].pc = IF ~async_target_persists(data) THEN "done"
                          ELSE IF IsDir(DirName(job_path(job[r].job_id)))
                               THEN "open" ELSE "makedirs"]
    /\ UNCHANGED <<result, response, dirs, files, req, cleaner>>

\* line 124: os.makedirs, which raises FileExistsError (ending the thread)
\* when another thread has created the directory since line 123 looked.
async_target_makedirs(r) ==
    /\ job[r].pc = "makedirs"
    /\ IF IsDir(DirName(job_path(job[r].job_id)))
       THEN /\ job' = [job EXCEPT ![r].pc = "crashed", ![r].error = "FileExistsError"]
            /\ dirs' = dirs
       ELSE /\ job' = [job EXCEPT ![r].pc = "open"]
            /\ dirs' = MakeDirs(DirName(job_path(job[r].job_id)))
    /\ UNCHANGED <<result, response, files, req, cleaner>>

\* lines 125-126: open(fpath, 'w') and json.dump(data, f). json.dump writes
\* the encoder's output as it is produced; when the encoder raises TypeError
\* the with-block closes the file over what was written, and the exception
\* ends the thread.
async_target_dump(r) ==
    /\ job[r].pc = "open"
    /\ LET enc == JsonEncode(job[r].data)
       IN  /\ files' = WriteFile(job_path(job[r].job_id), enc.out)
           /\ job' = [job EXCEPT ![r].pc = IF enc.ok THEN "done" ELSE "crashed",
                                 ![r].error = IF enc.ok THEN "none" ELSE "TypeError"]
    /\ UNCHANGED <<result, response, dirs, req, cleaner>>

---------------------------------------------------------------------------
(* ApiResult, ApiException                                                 *)

NoResult == [kind |-> "none"]
NoResponse == [kind |-> "none"]

\* The status codes callers pass.
Statuses == {200, 201, 400, 404, 500}

\* The messages callers raise ApiException with.
Messages == {<<>>, <<"n", "o">>}

\* The serializer arguments of to_response: none, or a function that wraps
\* the value in a list.
Serializers == {"none", "wrap"}

ApplySerializer(serializer, value) ==
    IF serializer = "wrap" THEN PyList(<<value>>) ELSE value

\* lines 23-25; a new result starts a request whose response is not built yet.
ApiResult_init(value, status) ==
    /\ result' = [kind |-> "ApiResult", value |-> value, status |-> status]
    /\ response' = NoResponse
    /\ UNCHANGED <<dirs, files, req, cleaner, job>>

\* lines 45-47
ApiException_init(message, status) ==
    /\ result' = [kind |-> "ApiException",
                  value |-> PyDict(<<
                      <<PyStr(<<"s", "u", "c", "c", "e", "s", "s">>), PyBool(FALSE)>>,
                      <<PyStr(<<"m", "e", "s", "s", "a", "g", "e">>), PyStr(message)>> >>),
                  status |-> status]
    /\ response' = NoResponse
    /\ UNCHANGED <<dirs, files, req, cleaner, job>>

\* The body without the except clause's repr.
to_response_body_without_repr(r) == JsonEncode(r).out

\* lines 33-36: json.dumps(r), repr(r) when it raises.
to_response_body(r) ==
    LET enc == JsonEncode(r) IN IF enc.ok THEN enc.out ELSE Repr(r)

\* lines 27-41
to_response(serializer) ==
    /\ result # NoResult
    /\ response = NoResponse
    /\ LET r == IF serializer # "none"
                THEN ApplySerializer(serializer, result.value)
                ELSE result.value
       IN  response' = [kind |-> "Response",
                        body |-> to_response_body(r),
                        status |-> result.status,
                        mimetype |-> "application/json",
                        serializer |-> serializer]
    /\ UNCHANGED <<result, dirs, files, req, cleaner, job>>

---------------------------------------------------------------------------
(* Specifications                                                          *)

Init ==
    /\ result = NoResult
    /\ response = NoResponse
    /\ dirs = {RootPath, StaticFolder, SourceDir}
    /\ files = [p \in {SourceDir \o <<ReportPdf>>} |-> <<"%", "P", "D", "F">>]
    /\ req = [r \in Requests |-> IdleRequest]
    /\ cleaner = [r \in Requests |-> NoCleaner]
    /\ job = [r \in Requests |-> NoJob]

\* The file server and the job runner, os.remove failing or not.
Next ==
    \E r \in Requests :
        \/ \E filepath \in FilePaths, attachment_name \in AttachmentNames :
                ApiFileResult_init(r, filepath, attachment_name)
        \/ ApiFileResult_makedirs(r)
        \/ ApiFileResult_copy(r)
        \/ cleanup(r)
        \/ cleanup_tempfile_wait(r)
        \/ \E failing \in BOOLEAN : cleanup_tempfile_remove(r, failing)
        \/ cleanup_tempfile_retry(r)
        \/ ApiAsyncJob_init(r)
        \/ run(r)
        \/ \E outcome \in Outcomes : async_target_call(r, outcome)
        \/ async_target_makedirs(r)
        \/ async_target_dump(r)

Spec == Init /\ [][Next]_vars

\* The file server where no os.remove fails.
NextNoFailure ==
    \E r \in Requests :
        \/ \E filepath \in FilePaths, attachment_name \in AttachmentNames :
                ApiFileResult_init(r, filepath, attachment_name)
        \/ ApiFileResult_makedirs(r)
        \/ ApiFileResult_copy(r)
        \/ cleanup(r)
        \/ cleanup_tempfile_wait(r)
        \/ cleanup_tempfile_remove(r, FALSE)

\* A started cleanup thread is scheduled, and its sleep ends.
SpecNoFailure ==
    /\ Init
    /\ [][NextNoFailure]_vars
    /\ \A r \in Requests :
        /\ WF_vars(cleanup_tempfile_wait(r))
        /\ WF_vars(cleanup_tempfile_remove(r, FALSE))

\* The result envelopes.
NextRender ==
    \/ \E value \in Values, status \in Statuses : ApiResult_init(value, status)
    \/ \E message \in Messages, status \in Statuses : ApiException_init(message, status)
    \/ \E serializer \in Serializers : to_response(serializer)

SpecRender == Init /\ [][NextRender]_vars

---------------------------------------------------------------------------
(* Properties                                                              *)

\* The job's thread has terminated, normally or by an exception.
Finished(r) == job[r].pc \in {"done", "crashed"}

ResultFileExists(r) == IsFile(job_path(job[r].job_id))

\* What a poller reads from the job's result file.
ResultDocument(r) == JsonLoads(files[NormPath(job_path(job[r].job_id))])

\* A str that is not empty.
IsNonEmptyText(v) == v.t = "str" /\ v.s # <<>>

\* C1: once the thread of a job whose unit of work returned a serializable
\* value X has finished, the result file exists and holds exactly
\* {"status": "complete", "data": X}.
C1_ResultFileHoldsReturnValue ==
    \A r \in Requests :
        (Finished(r) /\ job[r].outcome.kind = "return"
                /\ job[r].outcome.value \in SerializableValues)
            => /\ ResultFileExists(r)
               /\ ResultDocument(r) =
                    PyDict(<< <<KeyStatus, Complete>>, <<KeyData, job[r].outcome.value>> >>)

\* C2: once the thread of a job whose unit of work raised has finished, the
\* result file exists, its status is complete, its error is non-empty text
\* and it has no data member.
C2_ResultFileHoldsError ==
    \A r \in Requests :
        (Finished(r) /\ job[r].outcome.kind = "raise")
            => /\ ResultFileExists(r)
               /\ ResultDocument(r).t = "dict"
               /\ DictGet(ResultDocument(r), KeyStatus) = Complete
               /\ IsNonEmptyText(DictGet(ResultDocument(r), KeyError))
               /\ ~DictHas(ResultDocument(r), KeyData)

\* C3: constructing ApiFileResult with a path that is no regular file raises
\* and changes nothing: no directory is made, no file copied, no cleanup
\* thread started; the failed request has no staged file and never gets a
\* cleanup thread.
C3_NonFileRaisesWithoutEffect ==
    /\ [][\A r \in Requests, filepath \in FilePaths,
                attachment_name \in AttachmentNames :
            (ApiFileResult_init(r, filepath, attachment_name) /\ ~IsFile(filepath))
                => /\ req'[r].pc = "raised"
                   /\ req'[r].error = "TypeError"
                   /\ dirs' = dirs
                   /\ files' = files
                   /\ cleaner' = cleaner]_vars
    /\ [](\A r \in Requests :
            (req[r].pc = "raised" /\ req[r].error = "TypeError")
                => /\ req[r].tmp_file = NoPath
                   /\ cleaner[r].pc = "none")

\* A request has failed on the regular-file check while another request's
\* staged file is in place.
C3_Witness ==
    \E r, q \in Requests :
        /\ req[r].pc = "raised" /\ req[r].error = "TypeError"
        /\ IsFile(req[q].tmp_file)

\* C4: where no os.remove fails, the staged copy exists when the constructor
\* has returned, and once the completion hook has fired the staged copy is
\* eventually deleted and stays deleted.
C4_StagedThenEventuallyDeleted ==
    \A r \in Requests :
        /\ [](req[r].pc = "returned" => IsFile(req[r].tmp_file))
        /\ (req[r].pc = "responded") ~> [](~IsFile(req[r].tmp_file))

\* The cleanup thread has slept, removed the staged copy and ended.
C4_Witness ==
    \E r \in Requests :
        /\ req[r].pc = "responded"
        /\ cleaner[r].pc = "exit"
        /\ cleaner[r].removes = 1
        /\ ~IsFile(req[r].tmp_file)

\* C5: the cleanup thread exists only once the completion hook has fired;
\* each os.remove it has called was preceded by a full retention-window
\* sleep of that thread; and a staged copy is gone only through such a call.
C5_NoRemoveBeforeRetentionWindow ==
    \A r \in Requests :
        /\ cleaner[r].pc # "none" => req[r].pc = "responded"
        /\ cleaner[r].slept >= KEEP_FILE_FOR_SECONDS * cleaner[r].removes
        /\ (req[r].tmp_file # NoPath /\ ~IsFile(req[r].tmp_file))
                => cleaner[r].removes > 0

\* A staged copy has been removed, by a thread that slept the window.
C5_Witness ==
    \E r \in Requests :
        /\ req[r].tmp_file # NoPath
        /\ ~IsFile(req[r].tmp_file)
        /\ cleaner[r].slept = KEEP_FILE_FOR_SECONDS

\* C6: the cleanup task calls os.remove at most MAX_CLEANUP_TRIES (5) times.
C6_AtMostFiveRemoves ==
    \A r \in Requests : cleaner[r].removes <= MAX_CLEANUP_TRIES

\* The written paths of two requests: staged files and job result files.
StagedPath(r) == NormPath(req[r].tmp_file)
ResultPath(r) == NormPath(job_path(job[r].job_id))
HasStaged(r) == req[r].tmp_file # NoPath
HasJob(r) == job[r].pc # "none"

\* C7: two publishes get distinct staged file names, two jobs get distinct
\* identifiers and distinct result paths, and no staged path is a job's
\* result path; every file still holds what its own operation wrote.
C7_NoTwoOperationsShareAPath ==
    /\ \A r, q \in Requests :
        /\ (r # q /\ HasStaged(r) /\ HasStaged(q))
                => /\ BaseName(req[r].tmp_file) # BaseName(req[q].tmp_file)
                   /\ StagedPath(r) # StagedPath(q)
        /\ (r # q /\ HasJob(r) /\ HasJob(q))
                => /\ job[r].job_id # job[q].job_id
                   /\ ResultPath(r) # ResultPath(q)
        /\ (HasStaged(r) /\ HasJob(q)) => StagedPath(r) # ResultPath(q)
    /\ \A r \in Requests :
        /\ (HasStaged(r) /\ IsFile(req[r].tmp_file))
                => files[StagedPath(r)] = files[NormPath(req[r].filepath)]
        /\ (Finished(r) /\ ResultFileExists(r))
                => files[ResultPath(r)] = JsonEncode(job[r].data).out

\* Two publishes of the same source under the same display name are both
\* staged, next to a job's result file or not.
C7_Witness ==
    \E r, q \in Requests :
        /\ r # q
        /\ IsFile(req[r].tmp_file) /\ IsFile(req[q].tmp_file)
        /\ req[r].filepath = req[q].filepath
        /\ req[r].attachment_name = req[q].attachment_name

\* C8: to_response() without a serializer always returns a response; its
\* status is the result's; its body is repr(value) for a value json cannot
\* encode, and otherwise a JSON document that reads back as the value.
C8_ToResponseNeverRaises ==
    /\ (result # NoResult /\ response = NoResponse) => ENABLED to_response("none")
    /\ (response # NoResponse /\ response.serializer = "none")
            => /\ response.status = result.status
               /\ response.mimetype = "application/json"
               /\ IF result.value \in UnserializableValues
                  THEN response.body = Repr(result.value)
                  ELSE /\ response.body = JsonEncode(result.value).out
                       /\ JsonLoads(response.body) = result.value

\* A value json cannot encode has been rendered with status 404.
C8_Witness ==
    /\ response # NoResponse
    /\ response.serializer = "none"
    /\ result.value \in UnserializableValues
    /\ response.status = 404

\* C9: the retention window is slept once: a cleanup thread about to call
\* os.remove, or ended, has blocked for 60 seconds plus 2 seconds per failed
\* attempt.
C9_RetentionWindowSleptOnce ==
    \A r \in Requests :
        cleaner[r].pc \in {"remove", "exit"}
            => cleaner[r].slept =
                    KEEP_FILE_FOR_SECONDS + RETRY_SLEEP_SECONDS * cleaner[r].failures

\* A complete result document: {"status": "complete"} with exactly one of
\* data and error, the error a text.
IsResultDocument(doc) ==
    /\ doc.t = "dict"
    /\ Len(doc.pairs) = 2
    /\ doc.pairs[1] = <<KeyStatus, Complete>>
    /\ \/ doc.pairs[2][1] = KeyData
       \/ doc.pairs[2][1] = KeyError /\ doc.pairs[2][2].t = "str"

\* C10: once a job's thread has terminated, whatever the unit of work did,
\* its result file is absent or holds one complete result document.
C10_ResultFileAbsentOrComplete ==
    \A r \in Requests :
        Finished(r) => (~ResultFileExists(r) \/ IsResultDocument(ResultDocument(r)))

---------------------------------------------------------------------------
(* What holds of the code where C1, C2, C6, C9 and C10 fail (invariants of *)
(* Spec)                                                                   *)

\* The thread was not ended by the os.makedirs of line 124.
NoMakedirsRace(r) == job[r].error # "FileExistsError"

\* A truthy serializable return value is persisted as claimed, unless the
\* thread lost the race for the result directory.
TruthyReturnValuePersisted ==
    \A r \in Requests :
        (Finished(r) /\ NoMakedirsRace(r) /\ job[r].outcome.kind = "return"
                /\ job[r].outcome.value \in SerializableValues
                /\ Truthy(job[r].outcome.value))
            => /\ ResultFileExists(r)
               /\ ResultDocument(r) =
                    PyDict(<< <<KeyStatus, Complete>>, <<KeyData, job[r].outcome.value>> >>)

\* The trace text of a raising unit of work is persisted, unless the thread
\* lost the race for the result directory.
ErrorPersistedWithoutRace ==
    \A r \in Requests :
        (Finished(r) /\ NoMakedirsRace(r) /\ job[r].outcome.kind = "raise")
            => /\ ResultFileExists(r)
               /\ ResultDocument(r) =
                    PyDict(<< <<KeyStatus, Complete>>, <<KeyError, PyStr(format_exc)>> >>)

\* os.remove is called at most MAX_CLEANUP_TRIES + 1 times.
AtMostSixRemoves ==
    \A r \in Requests : cleaner[r].removes <= MAX_CLEANUP_TRIES + 1

\* Every attempt sleeps the retention window: a thread about to call
\* os.remove after k failures has blocked 60 * (k + 1) + 2 * k seconds.
RetentionWindowSleptPerAttempt ==
    \A r \in Requests :
        cleaner[r].pc = "remove"
            => cleaner[r].slept =
                    KEEP_FILE_FOR_SECONDS * (cleaner[r].failures + 1)
                        + RETRY_SLEEP_SECONDS * cleaner[r].failures

\* A result file is complete unless json.dump raised on the value.
ResultFileCompleteUnlessDumpRaised ==
    \A r \in Requests :
        (Finished(r) /\ job[r].error # "TypeError")
            => (~ResultFileExists(r) \/ IsResultDocument(ResultDocument(r)))

===========================================================================
